---- MODULE Spec2Model ----
(***************************************************************************)
(* A model of src/app.py: the prize draw kept in Redis.                    *)
(*                                                                         *)
(* The Redis keys are the store variables.  Every request handler is a    *)
(* sequence of steps, one step per Redis command (a pipeline of redis-py   *)
(* is MULTI/EXEC by default, so a pipeline is one step); what a handler    *)
(* computes locally between two commands belongs to the step of the       *)
(* command before it.  The call to the identity provider touches no key,   *)
(* so it is taken together with the SET that follows it.  Requests run in  *)
(* the slots Procs and interleave between any two steps.                   *)
(*                                                                         *)
(* The admin handlers are modelled for an authenticated session; the       *)
(* session check, the redirect and the templates are not modelled.         *)
(***************************************************************************)
EXTENDS Integers, Sequences, FiniteSets, TLC

\* ------------------------------------------------------------------ bounds
NumPrizes == 2
NumProcs == 2

\* ------------------------------------------------------------ input domains
Procs == 1..NumProcs
PrizeLabels == 1..NumPrizes

\* GitHub ids as a request may spell them: sequences of characters.
GithubIds == { <<"A", "l">>, <<"a", "l">>, <<"b", "o">> }

\* duration of /startdraw: 0 (no expiry) or a positive number of seconds
Durations == {0, 1}

\* status codes the identity provider answers with
StatusCodes == {200, 404, 503}

\* display names the provider can report: None or a string
None == << >>
Some(v) == << v >>
Names == { None, Some(<<"N">>) }

\* ------------------------------------------------------- program constants
\* redis.set(..., ex = 3600)
ProfileTTL == 3600

\* ---------------------------------------------------------- pure functions
\* str.lower(), character by character
LowerChar(c) ==
    CASE c = "A" -> "a"
      [] c = "L" -> "l"
      [] c = "B" -> "b"
      [] c = "O" -> "o"
      [] OTHER -> c

Lower(s) == [i \in DOMAIN s |-> LowerChar(s[i])]

LowerIds == { Lower(g) : g \in GithubIds }

\* every string a key profiles:<id> or a member of entrants can be
AllIds == GithubIds \cup LowerIds

\* json.dumps / json.loads of a profile {login, name, avatar_url}: the text is
\* modelled as the list of its members, a string as <<"str", s>>, None as
\* <<"null">>.
JStr(s) == <<"str", s>>
JNull == <<"null">>
JOpt(o) == IF o = None THEN JNull ELSE JStr(o[1])
JUnOpt(t) == IF t = JNull THEN None ELSE Some(t[2])

dumps_profile(pr) ==
    << <<"login", JStr(pr.login)>>,
       <<"name", JOpt(pr.name)>>,
       <<"avatar_url", JStr(pr.avatar_url)>> >>

loads_profile(t) ==
    [ login |-> t[1][2][2], name |-> JUnOpt(t[2][2]), avatar_url |-> t[3][2][2] ]

\* json.dumps / json.loads of the winner list: a list of {name, prize, image}
dumps_winner(w) ==
    << <<"name", JStr(w.name)>>, <<"prize", JStr(w.prize)>>, <<"image", JStr(w.image)>> >>

loads_winner(t) ==
    [ name |-> t[1][2][2], prize |-> t[2][2][2], image |-> t[3][2][2] ]

dumps_winner_list(l) == [i \in DOMAIN l |-> dumps_winner(l[i])]

loads_winner_list(t) == [i \in DOMAIN t |-> loads_winner(t[i])]

\* GitHub matches a login whatever its case
FoldChar(c) ==
    IF c \in {"A", "a"} THEN "a"
    ELSE IF c \in {"L", "l"} THEN "l"
    ELSE IF c \in {"B", "b"} THEN "b"
    ELSE IF c \in {"O", "o"} THEN "o"
    ELSE c

Fold(s) == [i \in DOMAIN s |-> FoldChar(s[i])]

\* the accounts GitHub knows, by login
Logins == { Fold(g) : g \in GithubIds }

\* the profile of an account whose display name is n
Account(login, n) == [login |-> login, name |-> n, avatar_url |-> <<"avatar", login>>]

\* what GET /users/{id} can answer when the accounts are accounts: 200 with the
\* profile, or a status other than 200 (no such user, rate limit, outage)
ProviderResponses(accounts, id) ==
    { [status_code |-> 200, json |-> Some(accounts[Fold(id)])] }
    \cup { [status_code |-> s, json |-> None] : s \in StatusCodes \ {200} }

\* the winner record get_winners builds from a prize and a profile
winner_record(prize, winner_profile) ==
    [ name |-> IF winner_profile.name # None
               THEN winner_profile.name[1]
               ELSE winner_profile.login,
      prize |-> prize,
      image |-> winner_profile.avatar_url ]

Min(a, b) == IF a < b THEN a ELSE b
Max(a, b) == IF a < b THEN b ELSE a

\* the count of a request's SPOPs of prizes is kept up to MaxPops
MaxPops == NumPrizes + 2

\* EXISTS key
Exists(present) == IF present THEN 1 ELSE 0

\* get_draw_state without the test of the prizes key in its first condition
get_draw_state_no_prizes(responses) ==
    LET draw_open == responses[1]
        winners_exist == responses[2]
        num_entrants == responses[4]
    IN  IF draw_open = 0 /\ winners_exist = 0
        THEN "NO_DRAW"
        ELSE IF draw_open = 1
        THEN (IF num_entrants = 0
              THEN "DRAW_OPEN_NO_ENTRANTS"
              ELSE "DRAW_OPEN_WITH_ENTRANTS")
        ELSE "DRAW_WON"

\* the classifier of get_draw_state over the four pipeline responses
get_draw_state(responses) ==
    LET draw_open == responses[1]
        winners_exist == responses[2]
        prizes_exist == responses[3]
        num_entrants == responses[4]
    IN  IF draw_open = 0 /\ winners_exist = 0 /\ prizes_exist = 0
        THEN "NO_DRAW"
        ELSE IF draw_open = 1
        THEN (IF num_entrants = 0
              THEN "DRAW_OPEN_NO_ENTRANTS"
              ELSE "DRAW_OPEN_WITH_ENTRANTS")
        ELSE IF draw_open = 0 /\ winners_exist = 0
        THEN (IF num_entrants = 0
              THEN "DRAW_CLOSED_NO_ENTRANTS"
              ELSE "DRAW_CLOSED_WITH_ENTRANTS")
        ELSE "DRAW_WON"

PrizeDrawState ==
    { "NO_DRAW", "DRAW_OPEN_NO_ENTRANTS", "DRAW_OPEN_WITH_ENTRANTS",
      "DRAW_CLOSED_NO_ENTRANTS", "DRAW_CLOSED_WITH_ENTRANTS", "DRAW_WON" }

\* HMSET key mapping: the fields of mapping are set, the others kept
hmset(hash, mapping) ==
    [k \in (DOMAIN hash) \cup (DOMAIN mapping) |->
        IF k \in DOMAIN mapping THEN mapping[k] ELSE hash[k]]

\* ------------------------------------------------------------------- state
VARIABLES
    is_open,       \* key is_open: "absent", "persist" (no expiry) or "expiring"
    prizes,        \* key prizes: a set of prize labels (empty = key absent)
    entrants,      \* key entrants: a set of ids (empty = key absent)
    winners,       \* key winners: a hash prize -> id (empty = key absent)
    winners_json,  \* key winners_json: None or Some(JSON text)
    profiles,      \* keys profiles:<id>: None or Some([val, ex])
    github,        \* the identity provider: the profile of every account
    frame,         \* per request slot: the position and the locals of its request, and
                   \* for the history: arg (its input), changed (the keys it changed),
                   \* pops (its SPOPs of prizes), nprizes (the prizes when it started)
    last,          \* the answer given by the step just taken, None after any other step
    okcount,       \* history: successful entries per id since it was last not entered (0, 1, 2 = more)
    expired,       \* history per id: "expired" when its profile key expired, "again" once
                   \* the key was set again after that, else "no"
    run,           \* history: progress of the run start, enter, end, draw
    prev,          \* history: the answer of the homepage request just before
    alloc_start,   \* history: the store as draw_prizes found it, while only draw_prizes
                   \* requests run (alone: no other draw_prizes has started since)
    phase          \* history: "none" before the first start_new_draw, "open" since the
                   \* last start_new_draw, "won" once get_draw_state answered DRAW_WON
                   \* since then

store == <<is_open, prizes, entrants, winners, winners_json, profiles>>
hist == <<github, okcount, expired, run, prev, alloc_start, phase>>
vars == <<is_open, prizes, entrants, winners, winners_json, profiles, github, frame,
          last, okcount, expired, run, prev, alloc_start, phase>>

NoMap == << >>

\* a request slot with no request in it
Fresh ==
    [ pc |-> "idle", op |-> "none", resp |-> "none", ret |-> None,
      lowercase_id |-> None, profile |-> None, prize |-> None,
      prize_winners |-> NoMap, winners |-> NoMap, todo |-> {},
      winner_list |-> << >>, state |-> None, ncalls |-> 0, touched |-> {},
      arg |-> None, changed |-> {}, pops |-> 0, nprizes |-> 0 ]

\* the request of frame f answers with status resp and body ret
Answered(f, resp, ret) == [f EXCEPT !.pc = "idle", !.resp = resp, !.ret = ret]

Idle(p) == frame[p].pc = "idle"
OthersIdle(p) == \A q \in Procs \ {p} : Idle(q)

\* slot p goes on with frame nf, or has answered and is free again; fr is
\* frame, or frame with the history fields of the other slots brought up to date
CommitWith(p, nf, fr) ==
    /\ frame' = [fr EXCEPT ![p] = IF nf.pc = "idle" THEN Fresh ELSE nf]
    /\ last' = IF nf.pc = "idle"
               THEN Some([op |-> nf.op, resp |-> nf.resp, ret |-> nf.ret,
                          lowercase_id |-> nf.lowercase_id,
                          ncalls |-> nf.ncalls, touched |-> nf.touched,
                          prize_winners |-> nf.prize_winners,
                          arg |-> nf.arg, changed |-> nf.changed,
                          before |-> IF nf.op = "homepage" THEN prev ELSE None])
               ELSE None

Commit(p, nf) == CommitWith(p, nf, frame)

\* the history fields pops and nprizes of a draw_prizes request are kept while no
\* start_new_draw has run since the request started (nprizes = NotKept after that)
NotKept == 0 - 1
Refilled(f) == IF f.op = "draw_prizes" THEN [f EXCEPT !.pops = 0, !.nprizes = NotKept] ELSE f
CountPop(f) == IF f.nprizes = NotKept THEN 0 ELSE Min(f.pops + 1, MaxPops)

Init ==
    /\ is_open = "absent"
    /\ prizes = {}
    /\ entrants = {}
    /\ winners = NoMap
    /\ winners_json = None
    /\ profiles = [i \in AllIds |-> None]
    /\ github = [l \in Logins |-> Account(l, IF l[1] = "a" THEN Some(<<"N">>) ELSE None)]
    /\ frame = [p \in Procs |-> Fresh]
    /\ last = None
    /\ okcount = [i \in AllIds |-> 0]
    /\ expired = [i \in AllIds |-> "no"]
    /\ run = 0
    /\ prev = None
    /\ alloc_start = None
    /\ phase = "none"

\* the four responses of the pipeline of get_draw_state
StateResponses ==
    << Exists(is_open # "absent"), Exists(DOMAIN winners # {}),
       Exists(prizes # {}), Cardinality(entrants) >>

\* ------------------------------------------------------ history bookkeeping
\* run: 1 after start_new_draw(prizes # {}, 0), 2 after the entry that follows
\* it succeeded, 3 after end_draw, 4 after draw_prizes; 0 otherwise.  A request
\* that is not the next one of the run, or that overlaps another, ends the run;
\* reading the state (homepage, admin_page) does not.
RunOnStart(p, kind) ==
    IF ~OthersIdle(p) THEN 0
    ELSE IF kind \in {"homepage", "admin_page"} THEN run
    ELSE IF kind = "enter_prize_draw" /\ run = 1 THEN 1
    ELSE IF kind = "draw_prizes" /\ run = 3 THEN 3
    ELSE 0

RunOnAnswer(nf) ==
    IF nf.pc # "idle" THEN run
    ELSE IF nf.op \in {"homepage", "admin_page"} THEN run
    ELSE IF nf.op = "enter_prize_draw" /\ run = 1 /\ nf.resp = "200" THEN 2
    ELSE IF nf.op = "draw_prizes" /\ run = 3 /\ nf.resp = "200" THEN 4
    ELSE 0

\* prev: the answer of a homepage request that called get_winners, kept until
\* a request other than the homepage starts or two requests overlap
PrevOnAnswer(nf) ==
    IF nf.pc # "idle" THEN prev
    ELSE IF nf.op = "homepage" /\ nf.state = Some("DRAW_WON")
    THEN Some([resp |-> nf.resp, ret |-> nf.ret])
    ELSE None

\* -------------------------------------------------------- get_github_profile
\* where the caller of get_github_profile goes on with the profile returned
\* (None or Some(profile)), up to its next Redis command
Resume(f, result) ==
    IF f.op = "enter_prize_draw"
    THEN IF result = None
         THEN { Answered(f, "404", None) }                       \* abort(404)
         ELSE { [f EXCEPT !.pc = "sadd", !.profile = result] }
    ELSE \* get_winners, in the loop over the hash
         IF result = None
         THEN { Answered(f, "500", None) }                       \* None['name']: TypeError
         ELSE LET wl == Append(f.winner_list, winner_record(f.prize[1], result[1]))
                  td == f.todo \ {f.prize[1]}
              IN  IF td = {}
                  THEN { [f EXCEPT !.pc = "set_json", !.winner_list = wl, !.todo = td,
                                   !.prize = None, !.lowercase_id = None] }
                  ELSE { [f EXCEPT !.pc = "gp_get", !.winner_list = wl, !.todo = td,
                                   !.prize = Some(nx), !.lowercase_id = f.winners[nx]]
                         : nx \in td }

\* get_github_profile that never finds the profile in Redis
GpGetNoCache(p) ==
    /\ frame[p].pc = "gp_get"
    /\ Commit(p, [frame[p] EXCEPT !.touched = @ \cup {"profiles"}, !.pc = "gp_fetch"])
    /\ UNCHANGED <<store, hist>>

\* redis.get(profiles:<id>); a hit returns json.loads of the value
GpGet(p) ==
    /\ frame[p].pc = "gp_get"
    /\ LET f == [frame[p] EXCEPT !.touched = @ \cup {"profiles"}]
           id == f.lowercase_id
       IN  \E nf \in IF profiles[id] # None
                     THEN Resume(f, Some(loads_profile(profiles[id][1].val)))
                     ELSE { [f EXCEPT !.pc = "gp_fetch"] } :
              /\ Commit(p, nf)
              /\ run' = RunOnAnswer(nf)
              /\ prev' = PrevOnAnswer(nf)
    /\ UNCHANGED <<store, github, okcount, expired, alloc_start, phase>>

\* get_github_profile that also caches what came with a status other than 200
GpFetchCacheAll(p) ==
    /\ frame[p].pc = "gp_fetch"
    /\ LET f == [frame[p] EXCEPT !.ncalls = @ + 1]
           id == f.lowercase_id
       IN  \E response \in ProviderResponses(github, id) :
             /\ profiles' = [profiles EXCEPT ![id] =
                    Some([val |-> dumps_profile(Account(id, None)), ex |-> ProfileTTL])]
             /\ expired' = [expired EXCEPT ![id] = IF @ = "expired" THEN "again" ELSE @]
             /\ \E nf \in Resume(f, response.json) :
                    /\ Commit(p, nf)
                    /\ run' = RunOnAnswer(nf)
                    /\ prev' = PrevOnAnswer(nf)
    /\ UNCHANGED <<is_open, prizes, entrants, winners, winners_json,
                   github, okcount, alloc_start, phase>>

\* requests.get(...); on 200 redis.set(profiles:<id>, json.dumps(profile), ex = 3600)
GpFetch(p) ==
    /\ frame[p].pc = "gp_fetch"
    /\ LET id == frame[p].lowercase_id
       IN  \E response \in ProviderResponses(github, id) :
             /\ IF response.status_code = 200
                THEN /\ profiles' = [profiles EXCEPT ![id] =
                            Some([val |-> dumps_profile(response.json[1]), ex |-> ProfileTTL])]
                     /\ expired' = [expired EXCEPT ![id] =
                            IF @ = "expired" THEN "again" ELSE @]
                ELSE UNCHANGED <<profiles, expired>>
             /\ \E nf \in Resume([frame[p] EXCEPT
                                    !.ncalls = @ + 1,
                                    !.changed = IF response.status_code = 200
                                                THEN @ \cup {"profiles"} ELSE @],
                                response.json) :
                    /\ Commit(p, nf)
                    /\ run' = RunOnAnswer(nf)
                    /\ prev' = PrevOnAnswer(nf)
    /\ UNCHANGED <<is_open, prizes, entrants, winners, winners_json,
                   github, okcount, alloc_start, phase>>

\* ---------------------------------------------------------- enter_prize_draw
\* enter_prize_draw that does not lowercase the id
EnterCheckNoLower(p, github_id) ==
    /\ Idle(p)
    /\ LET f == [Fresh EXCEPT !.op = "enter_prize_draw"]
           nf == IF Exists(is_open # "absent") = 0
                 THEN Answered(f, "403", None)
                 ELSE [f EXCEPT !.pc = "gp_get", !.lowercase_id = github_id]
       IN  /\ Commit(p, nf)
           /\ run' = IF nf.pc = "idle" THEN 0 ELSE RunOnStart(p, "enter_prize_draw")
    /\ prev' = None
    /\ alloc_start' = None
    /\ phase' = phase
    /\ UNCHANGED <<store, github, okcount, expired>>

\* enter_prize_draw that does not look at is_open
EnterCheckNoGuard(p, github_id) ==
    /\ Idle(p)
    /\ Commit(p, [Fresh EXCEPT !.op = "enter_prize_draw", !.pc = "gp_get",
                               !.lowercase_id = Lower(github_id)])
    /\ run' = RunOnStart(p, "enter_prize_draw")
    /\ prev' = None
    /\ alloc_start' = None
    /\ phase' = phase
    /\ UNCHANGED <<store, github, okcount, expired>>

\* redis.exists(is_open); abort(403) or lowercase the id and go on
EnterCheck(p, github_id) ==
    /\ Idle(p)
    /\ LET f == [Fresh EXCEPT !.op = "enter_prize_draw"]
           nf == IF Exists(is_open # "absent") = 0
                 THEN Answered(f, "403", None)
                 ELSE [f EXCEPT !.pc = "gp_get", !.lowercase_id = Lower(github_id)]
       IN  /\ Commit(p, nf)
           /\ run' = IF nf.pc = "idle" THEN 0 ELSE RunOnStart(p, "enter_prize_draw")
    /\ prev' = None
    /\ alloc_start' = None
    /\ phase' = phase
    /\ UNCHANGED <<store, github, okcount, expired>>

\* redis.sadd(entrants, lowercase_id); abort(400) when nothing was added
Sadd(p) ==
    /\ frame[p].pc = "sadd"
    /\ LET f == frame[p]
           id == f.lowercase_id
           member_added == IF id \in entrants THEN 0 ELSE 1
           nf == IF member_added = 0
                 THEN Answered(f, "400", None)
                 ELSE Answered([f EXCEPT !.changed = @ \cup {"entrants"}], "200", f.profile)
       IN  /\ entrants' = entrants \cup {id}
           /\ okcount' = IF nf.resp = "200" /\ okcount[id] < 2
                         THEN [okcount EXCEPT ![id] = @ + 1]
                         ELSE okcount
           /\ Commit(p, nf)
           /\ run' = RunOnAnswer(nf)
           /\ prev' = PrevOnAnswer(nf)
    /\ UNCHANGED <<is_open, prizes, winners, winners_json, profiles,
                   github, expired, alloc_start, phase>>

\* ------------------------------------------------------ homepage, get_winners
\* what the page is rendered from
Page(state, prizes_shown, winners_shown) ==
    Some([state |-> state, prizes |-> prizes_shown, winners |-> winners_shown])

\* get_draw_state(), then get_prizes() or get_winners() by the state
HomepageState(p) ==
    /\ Idle(p)
    /\ LET state == get_draw_state(StateResponses)
           f == [Fresh EXCEPT !.op = "homepage", !.state = Some(state)]
           nf == IF state \in {"DRAW_OPEN_NO_ENTRANTS", "DRAW_OPEN_WITH_ENTRANTS"}
                 THEN [f EXCEPT !.pc = "smembers"]
                 ELSE IF state = "DRAW_WON"
                 THEN [f EXCEPT !.pc = "gw_get"]
                 ELSE Answered(f, "200", Page(state, None, None))
       IN  /\ Commit(p, nf)
           /\ prev' = IF state = "DRAW_WON" /\ OthersIdle(p) THEN prev ELSE None
    /\ run' = RunOnStart(p, "homepage")
    /\ alloc_start' = None
    /\ phase' = IF get_draw_state(StateResponses) = "DRAW_WON" THEN "won" ELSE phase
    /\ UNCHANGED <<store, github, okcount, expired>>

\* get_prizes(): redis.smembers(prizes)
GetPrizes(p) ==
    /\ frame[p].pc = "smembers"
    /\ LET f == frame[p]
           nf == Answered(f, "200", Page(f.state[1], Some(prizes), None))
       IN  /\ Commit(p, nf)
           /\ prev' = PrevOnAnswer(nf)
    /\ UNCHANGED <<store, github, okcount, expired, run, alloc_start, phase>>

\* get_winners(): redis.get(winners_json); a hit is returned as json.loads of it
GwGet(p) ==
    /\ frame[p].pc = "gw_get"
    /\ LET f == frame[p]
           nf == IF winners_json # None
                 THEN Answered(f, "200",
                          Page(f.state[1], None, Some(loads_winner_list(winners_json[1]))))
                 ELSE [f EXCEPT !.pc = "hgetall"]
       IN  /\ Commit(p, nf)
           /\ prev' = PrevOnAnswer(nf)
    /\ UNCHANGED <<store, github, okcount, expired, run, alloc_start, phase>>

\* get_winners(): redis.hgetall(winners); None for an empty hash, else the loop
\* over the hash starts (in the order the reply lists the fields)
GwHgetall(p) ==
    /\ frame[p].pc = "hgetall"
    /\ LET f == [frame[p] EXCEPT !.touched = @ \cup {"winners"}]
           nfs == IF DOMAIN winners = {}
                  THEN { Answered(f, "200", Page(f.state[1], None, None)) }
                  ELSE { [f EXCEPT !.pc = "gp_get", !.winners = winners,
                                   !.todo = DOMAIN winners, !.prize = Some(x),
                                   !.lowercase_id = winners[x]]
                         : x \in DOMAIN winners }
       IN  \E nf \in nfs :
             /\ Commit(p, nf)
             /\ prev' = PrevOnAnswer(nf)
    /\ UNCHANGED <<store, github, okcount, expired, run, alloc_start, phase>>

\* get_winners(): redis.set(winners_json, json.dumps(winner_list))
GwSet(p) ==
    /\ frame[p].pc = "set_json"
    /\ LET f == [frame[p] EXCEPT !.changed = @ \cup {"winners_json"}]
           nf == Answered(f, "200", Page(f.state[1], None, Some(f.winner_list)))
       IN  /\ winners_json' = Some(dumps_winner_list(f.winner_list))
           /\ Commit(p, nf)
           /\ prev' = PrevOnAnswer(nf)
    /\ UNCHANGED <<is_open, prizes, entrants, winners, profiles,
                   github, okcount, expired, run, alloc_start, phase>>

\* ----------------------------------------------------------------- admin_page
\* POST with the right password: get_draw_state() for the admin template
AdminPage(p) ==
    /\ Idle(p)
    /\ Commit(p, Answered([Fresh EXCEPT !.op = "admin_page"], "200",
                          Some(get_draw_state(StateResponses))))
    /\ run' = RunOnStart(p, "admin_page")
    /\ prev' = None
    /\ alloc_start' = None
    /\ phase' = IF get_draw_state(StateResponses) = "DRAW_WON" THEN "won" ELSE phase
    /\ UNCHANGED <<store, github, okcount, expired>>

\* ------------------------------------------------------------- start_new_draw
\* start_new_draw whose DEL leaves the key entrants out
StartNewDrawKeepEntrants(p, new_prizes, duration) ==
    /\ Idle(p)
    /\ new_prizes # {}
    /\ winners' = NoMap
    /\ winners_json' = None
    /\ prizes' = new_prizes
    /\ is_open' = IF duration = 0 THEN "persist" ELSE "expiring"
    /\ CommitWith(p, Answered([Fresh EXCEPT !.op = "start_new_draw",
                                             !.arg = Some(<<new_prizes, duration>>)],
                               "200", None),
                  [q \in Procs |-> Refilled(frame[q])])
    /\ run' = IF OthersIdle(p) /\ duration = 0 THEN 1 ELSE 0
    /\ prev' = None
    /\ alloc_start' = None
    /\ phase' = "open"
    /\ UNCHANGED <<entrants, profiles, github, okcount, expired>>

\* the pipeline DEL entrants winners winners_json prizes; SADD prizes ...;
\* SET is_open true [EX duration].  SADD with no member is refused when it is
\* queued, so EXEC aborts and no command of the pipeline runs.
StartNewDraw(p, new_prizes, duration) ==
    /\ Idle(p)
    /\ IF new_prizes = {}
       THEN /\ Commit(p, Answered([Fresh EXCEPT !.op = "start_new_draw",
                                                !.arg = Some(<<new_prizes, duration>>)],
                                  "500", None))
            /\ run' = 0
            /\ UNCHANGED <<store, okcount>>
       ELSE /\ entrants' = {}
            /\ winners' = NoMap
            /\ winners_json' = None
            /\ prizes' = new_prizes
            /\ is_open' = IF duration = 0 THEN "persist" ELSE "expiring"
            /\ CommitWith(p, Answered([Fresh EXCEPT !.op = "start_new_draw",
                                                    !.arg = Some(<<new_prizes, duration>>)],
                                      "200", None),
                          [q \in Procs |-> Refilled(frame[q])])
            /\ okcount' = [i \in AllIds |-> 0]
            /\ run' = IF OthersIdle(p) /\ duration = 0 THEN 1 ELSE 0
            /\ UNCHANGED profiles
    /\ prev' = None
    /\ alloc_start' = None
    /\ phase' = IF new_prizes = {} THEN phase ELSE "open"
    /\ UNCHANGED <<github, expired>>

\* ------------------------------------------------------------------- end_draw
\* redis.delete(is_open)
EndDraw(p) ==
    /\ Idle(p)
    /\ is_open' = "absent"
    /\ Commit(p, Answered([Fresh EXCEPT !.op = "end_draw"], "200", None))
    /\ run' = IF OthersIdle(p) /\ run = 2 THEN 3 ELSE 0
    /\ prev' = None
    /\ alloc_start' = None
    /\ phase' = phase
    /\ UNCHANGED <<prizes, entrants, winners, winners_json, profiles,
                   github, okcount, expired>>

\* ---------------------------------------------------------------- draw_prizes
\* redis.unlink(is_open); prize_winners = {}
DpUnlinkOpen(p) ==
    /\ Idle(p)
    /\ is_open' = "absent"
    /\ Commit(p, [Fresh EXCEPT !.op = "draw_prizes", !.pc = "spop_prize",
                                !.changed = IF is_open # "absent" THEN {"is_open"} ELSE {},
                                !.nprizes = Cardinality(prizes)])
    /\ run' = RunOnStart(p, "draw_prizes")
    /\ prev' = None
    /\ alloc_start' = IF OthersIdle(p)
                      THEN Some([prizes |-> prizes, entrants |-> entrants,
                                 winners |-> winners, alone |-> TRUE])
                      ELSE IF alloc_start # None
                      THEN Some([alloc_start[1] EXCEPT !.alone = FALSE])
                      ELSE None
    /\ phase' = phase
    /\ UNCHANGED <<prizes, entrants, winners, winners_json, profiles,
                   github, okcount, expired>>

\* the prize is read (SRANDMEMBER) but not removed from the set
DpSpopPrizeKeep(p) ==
    /\ frame[p].pc = "spop_prize"
    /\ IF prizes = {}
       THEN Commit(p, [frame[p] EXCEPT !.pc = "hmset", !.pops = CountPop(frame[p])])
       ELSE \E x \in prizes :
              Commit(p, [frame[p] EXCEPT !.pc = "spop_entrant", !.prize = Some(x),
                                         !.pops = CountPop(frame[p])])
    /\ UNCHANGED <<store, hist>>

\* redis.spop(prizes, 1); an empty reply leaves the loop
DpSpopPrize(p) ==
    /\ frame[p].pc = "spop_prize"
    /\ IF prizes = {}
       THEN /\ Commit(p, [frame[p] EXCEPT !.pc = "hmset", !.pops = CountPop(frame[p])])
            /\ UNCHANGED prizes
       ELSE \E x \in prizes :
              /\ prizes' = prizes \ {x}
              /\ Commit(p, [frame[p] EXCEPT !.pc = "spop_entrant", !.prize = Some(x),
                                            !.pops = CountPop(frame[p]),
                                            !.changed = @ \cup {"prizes"}])
    /\ UNCHANGED <<is_open, entrants, winners, winners_json, profiles, hist>>

\* the entrant is read (SRANDMEMBER) but not removed from the set
DpSpopEntrantKeep(p) ==
    /\ frame[p].pc = "spop_entrant"
    /\ IF entrants = {}
       THEN Commit(p, [frame[p] EXCEPT !.pc = "hmset", !.prize = None])
       ELSE \E w \in entrants :
              Commit(p, [frame[p] EXCEPT
                     !.pc = "spop_prize",
                     !.prize = None,
                     !.prize_winners = hmset(@, [k \in {frame[p].prize[1]} |-> w])])
    /\ UNCHANGED <<store, hist>>

\* with no entrant left the loop goes on (continue) instead of ending (break)
DpSpopEntrantContinue(p) ==
    /\ frame[p].pc = "spop_entrant"
    /\ IF entrants = {}
       THEN /\ Commit(p, [frame[p] EXCEPT !.pc = "spop_prize", !.prize = None])
            /\ UNCHANGED <<entrants, okcount>>
       ELSE \E w \in entrants :
              /\ entrants' = entrants \ {w}
              /\ okcount' = [okcount EXCEPT ![w] = 0]
              /\ Commit(p, [frame[p] EXCEPT
                     !.pc = "spop_prize",
                     !.prize = None,
                     !.prize_winners = hmset(@, [k \in {frame[p].prize[1]} |-> w])])
    /\ UNCHANGED <<is_open, prizes, winners, winners_json, profiles,
                   github, expired, run, prev, alloc_start, phase>>

\* redis.spop(entrants, 1); an empty reply leaves the loop, else the pair is kept
DpSpopEntrant(p) ==
    /\ frame[p].pc = "spop_entrant"
    /\ IF entrants = {}
       THEN /\ Commit(p, [frame[p] EXCEPT !.pc = "hmset", !.prize = None])
            /\ UNCHANGED <<entrants, okcount>>
       ELSE \E w \in entrants :
              /\ entrants' = entrants \ {w}
              /\ okcount' = [okcount EXCEPT ![w] = 0]
              /\ Commit(p, [frame[p] EXCEPT
                     !.pc = "spop_prize",
                     !.prize = None,
                     !.changed = @ \cup {"entrants"},
                     !.prize_winners = hmset(@, [k \in {frame[p].prize[1]} |-> w])])
    /\ UNCHANGED <<is_open, prizes, winners, winners_json, profiles,
                   github, expired, run, prev, alloc_start, phase>>

\* the hash is replaced by the mapping (DEL, then HSET of its pairs if any)
DpHmsetOverwrite(p) ==
    /\ frame[p].pc = "hmset"
    /\ winners' = frame[p].prize_winners
    /\ Commit(p, [frame[p] EXCEPT !.pc = "unlink_entrants"])
    /\ UNCHANGED <<is_open, prizes, entrants, winners_json, profiles, hist>>

\* redis.hmset(winners, prize_winners): with an empty mapping the call raises
\* (DataError), so the handler ends there with a 500
DpHmset(p) ==
    /\ frame[p].pc = "hmset"
    /\ LET f == frame[p]
           nf == IF DOMAIN f.prize_winners = {}
                 THEN Answered(f, "500", None)
                 ELSE [f EXCEPT !.pc = "unlink_entrants", !.changed = @ \cup {"winners"}]
       IN  /\ winners' = IF DOMAIN f.prize_winners = {}
                         THEN winners
                         ELSE hmset(winners, f.prize_winners)
           /\ Commit(p, nf)
           /\ run' = RunOnAnswer(nf)
    /\ UNCHANGED <<is_open, prizes, entrants, winners_json, profiles,
                   github, okcount, expired, prev, alloc_start, phase>>

\* redis.unlink(entrants)
DpUnlinkEntrants(p) ==
    /\ frame[p].pc = "unlink_entrants"
    /\ LET nf == Answered([frame[p] EXCEPT
                              !.changed = IF entrants # {} THEN @ \cup {"entrants"} ELSE @],
                          "200", None)
       IN  /\ entrants' = {}
           /\ okcount' = [i \in AllIds |-> 0]
           /\ Commit(p, nf)
           /\ run' = RunOnAnswer(nf)
    /\ UNCHANGED <<is_open, prizes, winners, winners_json, profiles,
                   github, expired, prev, alloc_start, phase>>

\* -------------------------------------------------------------- environment
\* the key is_open set with EX expires
ExpireOpen ==
    /\ is_open = "expiring"
    /\ is_open' = "absent"
    /\ last' = None
    /\ UNCHANGED <<prizes, entrants, winners, winners_json, profiles, frame, hist>>

\* a key profiles:<id> expires
ExpireProfile(id) ==
    /\ profiles[id] # None
    /\ profiles[id][1].ex > 0
    /\ profiles' = [profiles EXCEPT ![id] = None]
    /\ expired' = [expired EXCEPT ![id] = "expired"]
    /\ last' = None
    /\ UNCHANGED <<is_open, prizes, entrants, winners, winners_json, frame,
                   github, okcount, run, prev, alloc_start, phase>>

\* the owner of an account changes its display name
ProviderChange(login, n) ==
    /\ github[login].name # n
    /\ github' = [github EXCEPT ![login] = Account(login, n)]
    /\ last' = None
    /\ UNCHANGED <<store, frame, okcount, expired, run, prev, alloc_start, phase>>

\* ------------------------------------------------------------ specifications
\* the steps of enter_prize_draw
Enter(p) ==
    \/ \E g \in GithubIds : EnterCheck(p, g)
    \/ GpGet(p)
    \/ GpFetch(p)
    \/ Sadd(p)

\* the steps of homepage and of admin_page
Pages(p) ==
    \/ HomepageState(p)
    \/ GetPrizes(p)
    \/ GwGet(p)
    \/ GwHgetall(p)
    \/ GwSet(p)
    \/ AdminPage(p)

\* start_new_draw and end_draw
Admin(p) ==
    \/ \E ps \in SUBSET PrizeLabels, d \in Durations : StartNewDraw(p, ps, d)
    \/ EndDraw(p)

\* the steps of draw_prizes
Draw(p) ==
    \/ DpUnlinkOpen(p)
    \/ DpSpopPrize(p)
    \/ DpSpopEntrant(p)
    \/ DpHmset(p)
    \/ DpUnlinkEntrants(p)

Step(p) == Enter(p) \/ Pages(p) \/ Admin(p) \/ Draw(p)

Environment ==
    \/ ExpireOpen
    \/ \E id \in AllIds : ExpireProfile(id)
    \/ \E l \in Logins, n \in Names : ProviderChange(l, n)

\* every request in every slot, interleaved between any two Redis commands
Next == (\E p \in Procs : Step(p)) \/ Environment

Spec == Init /\ [][Next]_vars

\* one request at a time
NextSeq == Step(1) \/ Environment

SpecSeq == Init /\ [][NextSeq]_vars

\* entries in every slot while draws are started and ended and keys expire
NextEnter ==
    \/ \E p \in Procs : Enter(p) \/ Admin(p)
    \/ ExpireOpen
    \/ \E id \in AllIds : ExpireProfile(id)

SpecEnter == Init /\ [][NextEnter]_vars

\* entries and draws in every slot while draws are started and ended and the
\* flag expires
NextDraw ==
    \/ \E p \in Procs : Enter(p) \/ Admin(p) \/ Draw(p)
    \/ ExpireOpen

SpecDraw == Init /\ [][NextDraw]_vars

\* get_draw_state over every content of the four keys it reads
InitResolve ==
    /\ is_open \in {"absent", "persist", "expiring"}
    /\ prizes \in SUBSET PrizeLabels
    /\ entrants \in SUBSET LowerIds
    /\ winners \in UNION { [d -> LowerIds] : d \in SUBSET PrizeLabels }
    /\ winners_json = None
    /\ profiles = [i \in AllIds |-> None]
    /\ github = [l \in Logins |-> Account(l, IF l[1] = "a" THEN Some(<<"N">>) ELSE None)]
    /\ frame = [p \in Procs |-> Fresh]
    /\ last = None
    /\ okcount = [i \in AllIds |-> 0]
    /\ expired = [i \in AllIds |-> "no"]
    /\ run = 0
    /\ prev = None
    /\ alloc_start = None
    /\ phase = "open"

NextResolve == \E p \in Procs : AdminPage(p)

SpecResolve == InitResolve /\ [][NextResolve]_vars

\* a draw that start_new_draw has just opened, before any entry
InitOpen ==
    /\ is_open \in {"persist", "expiring"}
    /\ prizes \in (SUBSET PrizeLabels) \ {{}}
    /\ entrants = {}
    /\ winners = NoMap
    /\ winners_json = None
    /\ profiles = [i \in AllIds |-> None]
    /\ github = [l \in Logins |-> Account(l, IF l[1] = "a" THEN Some(<<"N">>) ELSE None)]
    /\ frame = [p \in Procs |-> Fresh]
    /\ last = None
    /\ okcount = [i \in AllIds |-> 0]
    /\ expired = [i \in AllIds |-> "no"]
    /\ run = 0
    /\ prev = None
    /\ alloc_start = None
    /\ phase = "open"

\* the steps of a draw_prizes request that has started
DrawRuns(p) ==
    \/ DpSpopPrize(p)
    \/ DpSpopEntrant(p)
    \/ DpHmset(p)
    \/ DpUnlinkEntrants(p)

\* entries and draws in every slot on the draw opened, which is ended or expires
\* but is not opened again
NextTerm ==
    \/ \E p \in Procs : Enter(p) \/ Draw(p) \/ EndDraw(p)
    \/ ExpireOpen

\* a handler that has started goes on running
SpecTerm == InitOpen /\ [][NextTerm]_vars /\ \A p \in Procs : WF_vars(DrawRuns(p))

\* the entries and the admin requests one at a time in slot 1, while page
\* requests run in slot 2
NextView ==
    \/ Enter(1) \/ Admin(1) \/ Draw(1)
    \/ Pages(2) \/ GpGet(2) \/ GpFetch(2)

SpecView == Init /\ [][NextView]_vars

\* ------------------------------------------------------------------- claims
Range(f) == { f[k] : k \in DOMAIN f }
Injective(f) == \A a, b \in DOMAIN f : f[a] = f[b] => a = b

\* slot p took the step / its request answered in the step
Stepped(p) == frame'[p] # frame[p]
AnsweredNow(p) == frame[p].pc # "idle" /\ frame'[p].pc = "idle"
\* the provider calls of p's request after the step
CallsAfter(p) == IF frame'[p].pc = "idle" THEN last'[1].ncalls ELSE frame'[p].ncalls

\* a draw_prizes request that has run alone since it started, in slot p
AllocatesAlone(p) ==
    frame[p].op = "draw_prizes" /\ alloc_start # None /\ alloc_start[1].alone
\* a draw_prizes request that ran alone has answered in the step just taken
AllocatedAlone ==
    last # None /\ last[1].op = "draw_prizes" /\ alloc_start # None /\ alloc_start[1].alone

\* C1: a draw_prizes request that runs alone on the prizes P and the entrants E
\* it finds builds a mapping (prize_winners, the one it writes with HMSET) whose
\* keys are in P, whose values are in E, in which no entrant has two prizes,
\* and which has min(|P|, |E|) pairs once the loop has ended; the pairs are in
\* the hash winners after the write, which is exactly that mapping when the
\* hash was absent before.
C1_AllocateMatching ==
    \A p \in Procs :
        AllocatesAlone(p) =>
            LET P == alloc_start[1].prizes
                E == alloc_start[1].entrants
                pw == frame[p].prize_winners
            IN  /\ DOMAIN pw \subseteq P
                /\ Range(pw) \subseteq E
                /\ Injective(pw)
                /\ frame[p].pc \in {"hmset", "unlink_entrants"} =>
                       Cardinality(DOMAIN pw) = Min(Cardinality(P), Cardinality(E))
                /\ frame[p].pc = "unlink_entrants" =>
                       /\ \A k \in DOMAIN pw : k \in DOMAIN winners /\ winners[k] = pw[k]
                       /\ alloc_start[1].winners = NoMap => winners = pw

C1_Witness ==
    \E p \in Procs :
        /\ AllocatesAlone(p)
        /\ frame[p].pc = "unlink_entrants"
        /\ Cardinality(alloc_start[1].prizes) = 2
        /\ Cardinality(alloc_start[1].entrants) = 2
        /\ Cardinality(DOMAIN winners) = 2

\* entries that answered 200 for a login, whatever the case of the id, since
\* the id was last not entered
Entered(login) == \E e \in entrants : Fold(e) = login
RECURSIVE SumCount(_)
SumCount(ids) ==
    IF ids = {} THEN 0
    ELSE LET i == CHOOSE x \in ids : TRUE IN okcount[i] + SumCount(ids \ {i})
Successes(login) == SumCount({ i \in AllIds : Fold(i) = login })

\* C2: of the entries made for one identity (ids equal up to case) while it
\* stays entered, exactly one answers 200 and the others 400, and the identity
\* is in entrants once, however the entries interleave.
C2_OneEntryPerIdentity ==
    /\ \A login \in Logins : Successes(login) = IF Entered(login) THEN 1 ELSE 0
    /\ \A a, b \in entrants : Fold(a) = Fold(b) => a = b
    /\ (last # None /\ last[1].op = "enter_prize_draw" /\ last[1].resp \in {"200", "400"}) =>
           /\ Entered(Fold(last[1].lowercase_id))
           /\ last[1].resp = "200" => last[1].ret # None

C2_Witness ==
    /\ last # None
    /\ last[1].op = "enter_prize_draw"
    /\ last[1].resp = "400"
    /\ Successes(Fold(last[1].lowercase_id)) = 1
    /\ is_open # "absent"

\* C3: the key is_open and the hash winners are never both present.
C3_NotOpenAndWon == ~(is_open # "absent" /\ DOMAIN winners # {})

\* the table of the six states, by the presence of the flag, of the winners
\* and of the prizes and by the number of entrants
C4_Table(flag, won, pz, n) ==
    IF ~flag /\ ~won /\ ~pz THEN "NO_DRAW"
    ELSE IF flag /\ n = 0 THEN "DRAW_OPEN_NO_ENTRANTS"
    ELSE IF flag /\ n > 0 THEN "DRAW_OPEN_WITH_ENTRANTS"
    ELSE IF ~won /\ n = 0 THEN "DRAW_CLOSED_NO_ENTRANTS"
    ELSE IF ~won /\ n > 0 THEN "DRAW_CLOSED_WITH_ENTRANTS"
    ELSE "DRAW_WON"

\* C4: for every content of the four keys get_draw_state answers one of the six
\* states, the one the table gives.
C4_ResolveTotal ==
    (last # None /\ last[1].op = "admin_page") =>
        /\ last[1].ret # None
        /\ last[1].ret[1] \in PrizeDrawState
        /\ last[1].ret[1] = C4_Table(is_open # "absent", DOMAIN winners # {},
                                     prizes # {}, Cardinality(entrants))

C4_Witness ==
    /\ last # None
    /\ last[1].op = "admin_page"
    /\ last[1].ret = Some("DRAW_CLOSED_WITH_ENTRANTS")
    /\ prizes # {}

\* C5: in the run start_new_draw(prizes # {}, 0), enter_prize_draw (answering
\* 200), end_draw, draw_prizes, one request after the other, the state is
\* DRAW_OPEN_NO_ENTRANTS after the first, DRAW_OPEN_WITH_ENTRANTS after the
\* second and DRAW_WON after the last, whatever the keys held before.
C5_RoundTrip ==
    LET state == get_draw_state(StateResponses)
    IN  /\ run = 1 => state = "DRAW_OPEN_NO_ENTRANTS"
        /\ run = 2 => state = "DRAW_OPEN_WITH_ENTRANTS"
        /\ run = 4 => state = "DRAW_WON"

C5_Witness == run = 4 /\ DOMAIN winners # {} /\ is_open = "absent"

\* C6 as claimed: after draw_prizes ran alone on an empty set of entrants the
\* hash winners is empty and no prize is left.
C6_Original ==
    (AllocatedAlone /\ alloc_start[1].entrants = {}) =>
        (DOMAIN winners = {} /\ prizes = {})

\* C6 as amended: after draw_prizes ran alone on an empty set of entrants and n
\* prizes it has paired nothing and written nothing to the hash winners, and
\* it has removed one prize if there was one: max(n - 1, 0) prizes are left.
C6_NoEntrants ==
    (AllocatedAlone /\ alloc_start[1].entrants = {}) =>
        /\ last[1].prize_winners = NoMap
        /\ winners = alloc_start[1].winners
        /\ prizes \subseteq alloc_start[1].prizes
        /\ Cardinality(prizes) = Max(Cardinality(alloc_start[1].prizes) - 1, 0)

C6_Witness ==
    /\ AllocatedAlone
    /\ alloc_start[1].entrants = {}
    /\ Cardinality(alloc_start[1].prizes) = 2
    /\ Cardinality(prizes) = 1

\* an enter_prize_draw request starts in the step
EnterStarts ==
    \E p \in Procs :
        /\ frame[p].pc = "idle"
        /\ \/ frame'[p].op = "enter_prize_draw" /\ frame'[p].pc = "gp_get"
           \/ /\ frame' = frame
              /\ last' # None
              /\ last'[1].op = "enter_prize_draw"
              /\ last'[1].resp = "403"

\* C7: an enter_prize_draw request that finds the key is_open absent answers
\* 403 in its first step, without a provider call or a profile lookup, and
\* changes no key; and 403 is answered only then.
C7_NotOpen ==
    [][ EnterStarts =>
          IF is_open = "absent"
          THEN /\ last' # None
               /\ last'[1].op = "enter_prize_draw"
               /\ last'[1].resp = "403"
               /\ last'[1].ncalls = 0
               /\ last'[1].touched = {}
               /\ frame' = frame
               /\ UNCHANGED <<is_open, prizes, entrants, winners, winners_json, profiles>>
          ELSE last' = None ]_vars

C7_Witness ==
    /\ last # None
    /\ last[1].op = "enter_prize_draw"
    /\ last[1].resp = "403"
    /\ is_open = "absent"
    /\ prizes # {}

\* C8: of two homepage requests that follow each other and both call
\* get_winners, the second answers what the first answered, and it reads neither
\* the hash winners nor a profile nor calls the provider.
C8_Original ==
    (last # None /\ last[1].op = "homepage" /\ last[1].before # None) =>
        /\ last[1].resp = last[1].before[1].resp
        /\ last[1].ret = last[1].before[1].ret
        /\ last[1].ncalls = 0
        /\ last[1].touched = {}

\* a call of get_github_profile that finds the profile in Redis: no provider
\* call, no key written, and the profile returned is the one stored
C9_Hit(p) ==
    LET f == frame[p]
        id == f.lowercase_id
    IN  (f.pc = "gp_get" /\ Stepped(p) /\ profiles[id] # None) =>
            /\ CallsAfter(p) = f.ncalls
            /\ frame'[p].pc # "gp_fetch"
            /\ profiles' = profiles
            /\ f.op = "enter_prize_draw" =>
                   /\ frame'[p].pc = "sadd"
                   /\ dumps_profile(frame'[p].profile[1]) = profiles[id][1].val
            /\ (f.op = "homepage" /\ ~AnsweredNow(p)) =>
                   \E pr \in { Account(l, n) : l \in Logins, n \in Names } :
                       /\ dumps_profile(pr) = profiles[id][1].val
                       /\ frame'[p].winner_list =
                              Append(f.winner_list, winner_record(f.prize[1], pr))

\* C9 as claimed: a hit makes no provider call and returns the stored profile;
\* the get after the key expired makes one provider call and sets the key
\* again, with a positive time to live.
C9_Original ==
    [][ \A p \in Procs :
          /\ C9_Hit(p)
          /\ (frame[p].pc = "gp_fetch" /\ Stepped(p)
                /\ expired[frame[p].lowercase_id] = "expired") =>
                 /\ CallsAfter(p) = frame[p].ncalls + 1
                 /\ profiles'[frame[p].lowercase_id] # None
                 /\ profiles'[frame[p].lowercase_id][1].ex > 0 ]_vars

\* C9 as amended: a hit makes no provider call and returns the stored profile;
\* the get after the key expired makes one provider call, and it sets the key
\* again, with a positive time to live, when the provider answers 200;
\* otherwise it sets nothing and its caller answers 404 (500 in get_winners).
C9_ProfileCache ==
    [][ \A p \in Procs :
          /\ C9_Hit(p)
          /\ (frame[p].pc = "gp_fetch" /\ Stepped(p)
                /\ expired[frame[p].lowercase_id] = "expired") =>
                 LET id == frame[p].lowercase_id
                 IN  /\ CallsAfter(p) = frame[p].ncalls + 1
                     /\ \/ /\ profiles'[id] # None
                           /\ profiles'[id][1].ex > 0
                           /\ profiles'[id][1].val = dumps_profile(github[Fold(id)])
                           /\ expired'[id] = "again"
                        \/ /\ profiles'[id] = None
                           /\ AnsweredNow(p)
                           /\ last'[1].resp \in {"404", "500"} ]_vars

C9_Witness ==
    \E id \in AllIds, p \in Procs :
        /\ expired[id] = "again"
        /\ profiles[id] # None
        /\ frame[p].pc = "sadd"
        /\ frame[p].lowercase_id = id
        /\ frame[p].ncalls = 1

\* C10: a call of get_github_profile that misses goes to the provider, and
\* when the provider answers another status than 200 the caller gets None
\* (it answers 404, or 500 in get_winners) and no profile key is written, so
\* the key is still absent for the next call.
C10_NotFoundNotCached ==
    [][ \A p \in Procs :
          LET f == frame[p]
              id == f.lowercase_id
          IN  /\ (f.pc = "gp_get" /\ Stepped(p) /\ profiles[id] = None) =>
                     (frame'[p].pc = "gp_fetch" /\ profiles' = profiles)
              /\ (f.pc = "gp_fetch" /\ AnsweredNow(p)) =>
                     /\ last'[1].resp = IF f.op = "enter_prize_draw" THEN "404" ELSE "500"
                     /\ CallsAfter(p) = f.ncalls + 1
                     /\ profiles' = profiles
                     /\ profiles'[id] = None ]_vars

C10_Witness ==
    /\ last # None
    /\ last[1].op = "enter_prize_draw"
    /\ last[1].resp = "404"
    /\ last[1].ncalls = 1
    /\ profiles[last[1].lowercase_id] = None

\* C11: a draw_prizes request that starts, with no other request in flight,
\* when the hash winners is present (an earlier draw_prizes resolved the draw and
\* no start_new_draw ran since) pairs nothing and leaves the hash as it found
\* it.
C11_SecondAllocate ==
    (AllocatedAlone /\ alloc_start[1].winners # NoMap) =>
        /\ winners = alloc_start[1].winners
        /\ last[1].prize_winners = NoMap

C11_Witness ==
    /\ AllocatedAlone
    /\ Cardinality(DOMAIN alloc_start[1].winners) = 2
    /\ winners = alloc_start[1].winners
    /\ last[1].resp = "500"

\* C12: a request of enter_prize_draw, draw_prizes or the homepage (get_winners,
\* get_github_profile) that ends in a failure (a status other than 200) has
\* changed no key, requests running one at a time.
C12_Original ==
    (/\ last # None
     /\ last[1].op \in {"enter_prize_draw", "draw_prizes", "homepage"}
     /\ last[1].resp # "200") =>
        last[1].changed = {}

\* C13: when start_new_draw(prizes, duration) has answered 200 the key prizes
\* holds exactly the prizes given, entrants, winners and winners_json are
\* absent and is_open is present (with an expiry iff duration # 0); and the
\* first entry after it, whoever entered or won before, is not answered 400
\* or 403: it answers 200, or 404 after a provider call that failed.
C13_OpenDraw ==
    [][ /\ (last' # None /\ last'[1].op = "start_new_draw" /\ last'[1].resp = "200") =>
              /\ prizes' = last'[1].arg[1][1]
              /\ entrants' = {}
              /\ winners' = NoMap
              /\ winners_json' = None
              /\ is_open' = IF last'[1].arg[1][2] = 0 THEN "persist" ELSE "expiring"
        /\ (run = 1 /\ last' # None /\ last'[1].op = "enter_prize_draw") =>
              /\ last'[1].resp \in {"200", "404"}
              /\ last'[1].resp = "404" => last'[1].ncalls = 1
              /\ last'[1].resp = "200" => entrants' = {last'[1].lowercase_id} ]_vars

\* an identity whose profile was cached before the draw started (it entered or
\* won before) has entered the new draw
C13_Witness ==
    /\ run = 2
    /\ last # None
    /\ last[1].op = "enter_prize_draw"
    /\ last[1].resp = "200"
    /\ last[1].ncalls = 0
    /\ entrants = {last[1].lowercase_id}

\* the draw_prizes requests in flight
Drawing == { p \in Procs : frame[p].op = "draw_prizes" }

\* C14: while only draw_prizes requests run on the prizes P and the entrants E
\* that the first of them found (the hash winners absent), every request pairs
\* prizes of P with entrants of E, no entrant twice; no prize and no entrant is
\* paired by two requests; and the hash winners is injective, with fields in P
\* and values in E, at every moment and so after all of them have answered.
C14_ConcurrentAllocate ==
    (alloc_start # None /\ alloc_start[1].winners = NoMap) =>
        LET P == alloc_start[1].prizes
            E == alloc_start[1].entrants
        IN  /\ \A p \in Drawing :
                  /\ DOMAIN frame[p].prize_winners \subseteq P
                  /\ Range(frame[p].prize_winners) \subseteq E
                  /\ Injective(frame[p].prize_winners)
            /\ \A p, q \in Drawing :
                  p # q =>
                    /\ DOMAIN frame[p].prize_winners \cap DOMAIN frame[q].prize_winners = {}
                    /\ Range(frame[p].prize_winners) \cap Range(frame[q].prize_winners) = {}
            /\ DOMAIN winners \subseteq P
            /\ Range(winners) \subseteq E
            /\ Injective(winners)
            /\ \A p \in Drawing :
                  frame[p].pc # "unlink_entrants" =>
                    /\ DOMAIN frame[p].prize_winners \cap DOMAIN winners = {}
                    /\ Range(frame[p].prize_winners) \cap Range(winners) = {}

\* two overlapping requests have answered, each having paired one prize
C14_Witness ==
    /\ alloc_start # None
    /\ ~alloc_start[1].alone
    /\ alloc_start[1].winners = NoMap
    /\ Drawing = {}
    /\ last # None
    /\ last[1].op = "draw_prizes"
    /\ Cardinality(DOMAIN last[1].prize_winners) = 1
    /\ Cardinality(DOMAIN winners) = 2

\* C15: once the hash winners is present no step changes it, except the step of
\* a start_new_draw: within one draw the hash is written once.
C15_Original ==
    [][ (winners # NoMap /\ ~(last' # None /\ last'[1].op = "start_new_draw")) =>
            winners' = winners ]_vars

\* C16: when a draw_prizes request that ran with no other request in flight
\* has answered, the set entrants is empty, whatever prizes and entrants it
\* found.
C16_Original == AllocatedAlone => entrants = {}

\* C17: no step adds a member to the set entrants in a state where the key
\* is_open is absent.
C17_Original ==
    [][ (entrants' \ entrants # {}) => is_open # "absent" ]_vars

\* C18: a draw_prizes request pops prizes at most n + 1 times, n the number of
\* prizes when it started, as long as no start_new_draw has run since; and,
\* the draw not being opened again, every draw_prizes request answers in the
\* end, whatever entries and other draw_prizes requests run beside it.
C18_AllocateTerminates ==
    /\ [](\A p \in Procs :
            (frame[p].op = "draw_prizes" /\ frame[p].nprizes # NotKept) =>
                frame[p].pops <= frame[p].nprizes + 1)
    /\ \A p \in Procs : (frame[p].op = "draw_prizes") ~> (frame[p].pc = "idle")

\* a request has popped both prizes and found none the third time, beside
\* another request
C18_Witness ==
    \E p, q \in Procs :
        /\ p # q
        /\ frame[p].op = "draw_prizes"
        /\ frame[p].pc = "hmset"
        /\ frame[p].nprizes = 2
        /\ frame[p].pops = 3
        /\ frame[q].op \in {"draw_prizes", "enter_prize_draw"}

\* the (prize, login) pairs a winner list shows, and those of the hash winners
ViewPairs(l) == { <<l[i].prize, l[i].image[2]>> : i \in DOMAIN l }
MapPairs(h) == { <<k, Fold(h[k])>> : k \in DOMAIN h }

\* C19: whenever the key winners_json is present, the list it holds has one
\* record for every pair of the hash winners and no other record.
C19_Original ==
    winners_json # None =>
        LET l == loads_winner_list(winners_json[1])
        IN  /\ ViewPairs(l) = MapPairs(winners)
            /\ Len(l) = Cardinality(DOMAIN winners)

\* a step in which a request calls get_draw_state(): an admin_page or homepage
\* request answered at once, or a homepage request going on to the prizes or
\* the winners
ResolveStep ==
    \/ /\ last' # None
       /\ last'[1].op \in {"homepage", "admin_page"}
       /\ frame' = frame
    \/ \E p \in Procs : Idle(p) /\ frame'[p].op = "homepage"

\* C20: the phase only moves forward: once get_draw_state() has returned
\* DRAW_WON it returns DRAW_WON on every later call until the next
\* start_new_draw, and once start_new_draw has run it never returns NO_DRAW.
C20_Original ==
    [][ ResolveStep =>
            LET state == get_draw_state(StateResponses)
            IN  /\ phase = "won" => state = "DRAW_WON"
                /\ phase # "none" => state # "NO_DRAW" ]_vars
====
